---- MODULE Spec2Model ----
(***************************************************************************)
(* GeocoderControlDirective (ngx-mapbox-gl-geocoder-control): the adapter  *)
(* that builds a MapboxGeocoder widget when the map is created, registers  *)
(* event forwarders on it, stores it in the host ControlComponent's slot   *)
(* and forwards live input changes (proximity, searchInput) to it.         *)
(*                                                                         *)
(* JavaScript values are encoded as strings so that every field has one    *)
(* TLA+ type: Undefined, Null, EmptyString, False, Zero stand for          *)
(* undefined, null, '', false and 0; every other string is an opaque       *)
(* truthy value.  Every handler runs to completion (single-threaded event  *)
(* loop), so each handler is one action; `trace` holds, in order, the      *)
(* calls the most recent handler made on its collaborators.                *)
(***************************************************************************)
EXTENDS Naturals, Sequences, FiniteSets, TLC

\* ------------------------------------------------------------ bounds
MaxCreated == 2     \* map-created notifications delivered to the adapter
MaxLoaded == 2      \* map-loaded notifications fired by the map service
MaxChanges == 3     \* change notifications (ngOnChanges calls)
MaxForwarded == 3   \* result events forwarded outward

\* ------------------------------------------------------------ values
Undefined == "undefined"
Null == "null"
EmptyString == ""
False == "false"
Zero == "0"

Falsy == {Undefined, Null, EmptyString, False, Zero}

Truthy(v) == v \notin Falsy

\* a || b
Or(a, b) == IF Truthy(a) THEN a ELSE b

\* The @Input() fields read once, at attachment (lines 48-61).
InitInputs ==
  {"countries", "placeholder", "zoom", "bbox", "types", "flyTo", "minLength",
   "limit", "language", "accessToken", "filter", "localGeocoder", "mapboxgl",
   "marker"}

\* The keys of the options literal (lines 108-124).
OptionKeys == InitInputs \cup {"proximity"}

\* Field initialisers: only marker has one (line 61).
DefaultInputs == [k \in InitInputs |-> IF k = "marker" THEN False ELSE Undefined]

\* The eight @Output() channels (lines 67-88).
Channels ==
  {"clear", "loading", "geocoderResults", "geocoderResult", "geocoderError",
   "results", "result", "error"}

\* The widget event kinds, in the order hookEvents registers them.
KindOrder == <<"results", "result", "error", "loading", "clear">>

Kinds == {KindOrder[i] : i \in 1..Len(KindOrder)}

\* The deprecated channels, in the order warnDeprecatedOutputs tests them.
LegacyOrder == <<"results", "result", "error">>

\* The error thrown by the occupied-slot guard (line 106).
AlreadySet == "Another control is already set for this control"

\* Calling a method on an undefined geocoder (line 138).
TypeError == "TypeError"

\* The control another directive put in the host slot.
OtherControl == "otherControl"

\* The screen position configured on the host ControlComponent.
Positions == {Undefined, "top-right"}

\* ------------------------------------------------------------ state
VARIABLES
  inputs,          \* the init @Input() fields
  MAPBOX_GEOCODER_API_KEY, \* the injected default credential
  proximity,       \* @Input() proximity
  searchInput,     \* @Input() searchInput
  bound,           \* the dynamic inputs that already had their first change
  observed,        \* the channels with at least one subscriber
  control,         \* controlComponent.control
  position,        \* controlComponent.position
  geocoder,        \* this.geocoder
  lastResultId,    \* this.lastResultId
  contentInit,     \* ngAfterContentInit ran: mapCreated$ is subscribed
  loadedSub,       \* the mapLoaded$ subscription of line 137 exists
  handlers,        \* <<widget, kind>>: forwarders registered with on()
  ctorOptions,     \* the options each constructed widget was given
  created,         \* map-created notifications delivered so far
  loaded,          \* map-loaded notifications fired so far
  changes,         \* change notifications so far
  changesAfter,    \* change notifications processed since attachment
  constructed,     \* MapboxGeocoder constructor calls so far
  onCalls,         \* geocoder.on calls so far
  slotWrites,      \* assignments to controlComponent.control so far
  addControlCalls, \* mapService.addControl calls so far
  queryCalls,      \* geocoder.query calls so far
  forwarded,       \* identifiers of the result events forwarded so far
  last,            \* the most recent handler and the input it was given
  trace            \* the calls made by the most recent handler, in order

vars ==
  <<inputs, MAPBOX_GEOCODER_API_KEY, proximity, searchInput, bound, observed,
    control, position, geocoder, lastResultId, contentInit, loadedSub,
    handlers, ctorOptions, created, loaded, changes, changesAfter,
    constructed, onCalls, slotWrites, addControlCalls, queryCalls, forwarded,
    last, trace>>

\* A handler run: its name, the payload of the event it was given, and the
\* inputs of the change set it was given.
Ran(name, arg, chg) == [name |-> name, arg |-> arg, chg |-> chg]

\* One call on a collaborator.
Call(op, a, b) == [op |-> op, a |-> a, b |-> b]

\* The calls of a trace with the given operation.
Calls(tr, op) == SelectSeq(tr, LAMBDA c : c.op = op)

\* ------------------------------------------------------------ options
\* accessToken: this.accessToken || this.MAPBOX_GEOCODER_API_KEY (line 121).
ResolveAccessToken(token, key) == Or(token, key)

\* The options literal of lines 108-124, before stripping.
RawOptions(inp, prox, key) ==
  [k \in OptionKeys |->
     IF k = "proximity" THEN prox
     ELSE IF k = "accessToken" THEN ResolveAccessToken(inp[k], key)
     ELSE inp[k]]

\* Mutant: every falsy value is deleted.
IsStripped_Falsy(v) == v \in Falsy

\* The test of line 128: the key is deleted.
IsStripped(v) == v = Undefined

\* Lines 126-131: delete every key whose value is undefined.
StripUndefined(opts) ==
  [k \in {j \in DOMAIN opts : ~IsStripped(opts[j])} |-> opts[k]]

\* The object handed to new MapboxGeocoder (line 132).
BuildOptions(inp, prox, key) == StripUndefined(RawOptions(inp, prox, key))

\* ------------------------------------------------------------ events
\* The current-name channel of an event kind.
CurrentChannel(kind) ==
  CASE kind = "results" -> "geocoderResults"
    [] kind = "result" -> "geocoderResult"
    [] kind = "error" -> "geocoderError"
    [] OTHER -> kind

\* The channels a forwarder of the kind emits on, in the order of the code.
KindChannels(kind) ==
  IF kind \in {"results", "result", "error"}
  THEN <<CurrentChannel(kind), kind>>
  ELSE <<kind>>

\* Mutant: only the current-name channel is consulted.
KindObserved_CurrentOnly(kind, obs) == CurrentChannel(kind) \in obs

\* The guards of lines 165, 173, 185, 193 and 198.
KindObserved(kind, obs) ==
  \E i \in 1..Len(KindChannels(kind)) : KindChannels(kind)[i] \in obs

\* The kinds hookEvents registers a forwarder for, in order (lines 165-200).
HookedKinds(obs) == SelectSeq(KindOrder, LAMBDA k : KindObserved(k, obs))

\* Mutant: a legacy channel is warned about whenever its kind is listened to.
WarnsFor_Either(old, obs) == old \in obs \/ CurrentChannel(old) \in obs

\* The guards of lines 208, 211 and 214.
WarnsFor(old, obs) == old \in obs

\* warnDeprecatedOutputs (lines 203-217): one dw(old, new) per observed
\* legacy channel.
warnDeprecatedOutputs(obs) ==
  LET olds == SelectSeq(LegacyOrder, LAMBDA o : WarnsFor(o, obs))
  IN  [i \in 1..Len(olds) |-> Call("warn", olds[i], CurrentChannel(olds[i]))]

\* hookEvents (lines 163-201): the warnings, then one on() per hooked kind.
hookEvents(w, obs) ==
  LET ks == HookedKinds(obs)
  IN  warnDeprecatedOutputs(obs) \o [i \in 1..Len(ks) |-> Call("on", w, ks[i])]

\* EventEmitter.emit: the emitter is called, and its subscribers, if it has
\* any, are notified.
Emit(ch, payload, obs) ==
  <<Call("emit", ch, payload)>> \o
  (IF ch \in obs THEN <<Call("notify", ch, payload)>> ELSE <<>>)

\* Mutant: the body runs without entering the zone.
ZoneRun_None(body) == body

\* zone.run(body).
ZoneRun(body) ==
  <<Call("zone.run", "enter", "")>> \o body \o <<Call("zone.run", "leave", "")>>

\* Mutant: the forwarder emits without the event.
EmittedPayload_Dropped(kind, payload) == Undefined

\* What a forwarder passes to emit: clear emits no value (line 199).
EmittedPayload(kind, payload) == IF kind = "clear" THEN Undefined ELSE payload

\* Mutant: the legacy emission is dropped.
ForwardCalls_CurrentOnly(kind, payload, obs) ==
  ZoneRun(Emit(CurrentChannel(kind), EmittedPayload(kind, payload), obs))

\* Mutant: each emission re-enters the zone on its own.
ForwardCalls_SeparateRuns(kind, payload, obs) ==
  LET chs == KindChannels(kind)
      p == EmittedPayload(kind, payload)
  IN  IF Len(chs) = 2
      THEN ZoneRun(Emit(chs[1], p, obs)) \o ZoneRun(Emit(chs[2], p, obs))
      ELSE ZoneRun(Emit(chs[1], p, obs))

\* Mutant: the forwarder looks at the subscribers again on every event.
ForwardCalls_IfObserved(kind, payload, obs) ==
  IF KindObserved(kind, obs)
  THEN ZoneRun(Emit(CurrentChannel(kind), EmittedPayload(kind, payload), obs)
               \o (IF CurrentChannel(kind) # kind
                   THEN Emit(kind, EmittedPayload(kind, payload), obs)
                   ELSE <<>>))
  ELSE <<>>

\* The emissions of one forwarder run, inside zone.run (lines 167-170,
\* 178-181, 187-190, 195, 199).
ForwardCalls(kind, payload, obs) ==
  LET chs == KindChannels(kind)
      p == EmittedPayload(kind, payload)
  IN  ZoneRun(IF Len(chs) = 2
              THEN Emit(chs[1], p, obs) \o Emit(chs[2], p, obs)
              ELSE Emit(chs[1], p, obs))

\* Mutant: no event is taken for a duplicate.
IsNewResult_Always(lastId, id) == TRUE

\* The duplicate test of line 176.
IsNewResult(lastId, id) == lastId # id

\* ------------------------------------------------------------ widgets
\* The n-th widget this adapter constructs.
Widget(n) == "geocoder" \o ToString(n)

Widgets == {Widget(n) : n \in 1..MaxCreated}

\* Identifiers carried by upstream result events (GeoJSON id is optional).
ResultIds == {"X", "Y", Undefined}

\* Payloads of the results, error and loading events.
Payloads == {"p1", "p2"}

\* Values the host binds to searchInput and proximity.
SearchValues == {EmptyString, "q1", "q2"}

ProximityValues == {"P1", "P2"}

DynamicInputs == {"proximity", "searchInput"}

\* ------------------------------------------------------------ initial states
\* The adapter after construction (lines 48-101), before any lifecycle hook:
\* no widget, nothing subscribed, no calls made.
Fresh ==
  /\ proximity = Undefined
  /\ searchInput = Undefined
  /\ bound = {}
  /\ geocoder = Undefined
  /\ lastResultId = Undefined
  /\ contentInit = FALSE
  /\ loadedSub = FALSE
  /\ handlers = {}
  /\ ctorOptions = <<>>
  /\ created = 0
  /\ loaded = 0
  /\ changes = 0
  /\ changesAfter = 0
  /\ constructed = 0
  /\ onCalls = 0
  /\ slotWrites = 0
  /\ addControlCalls = 0
  /\ queryCalls = 0
  /\ forwarded = <<>>
  /\ last = Ran("constructor", "", {})
  /\ trace = <<>>

\* Subscriber assignments the lifecycle specification starts from.
ObservedCases ==
  {{}, Channels, {"result", "loading"}}

\* Values bound to the init inputs in the options specification.
TokenValues == {Undefined, EmptyString, "A"}

\* What the injector supplies for the @Optional() default credential
\* (lines 98-100): null when no provider exists, else the provided string.
KeyValues == {Null, Undefined, "B"}

FlagValues == {Undefined, False, "true"}

NumberValues == {Undefined, Zero, "9"}

\* Lifecycle specification: default init inputs, a few subscriber sets.
Init ==
  /\ Fresh
  /\ inputs = DefaultInputs
  /\ MAPBOX_GEOCODER_API_KEY = Null
  /\ observed \in ObservedCases
  /\ control \in {Undefined, OtherControl}
  /\ position = "top-right"

\* Forwarding specification: every assignment of subscribers.
InitEvents ==
  /\ Fresh
  /\ inputs = DefaultInputs
  /\ MAPBOX_GEOCODER_API_KEY = Null
  /\ observed \in SUBSET Channels
  /\ control \in {Undefined, OtherControl}
  /\ position \in Positions

\* The channels whose subscribers come and go in the subscription
\* specification: both channels of a paired kind, the legacy channel of
\* another, and a single-channel kind.
SubChannels == {"geocoderResult", "result", "error", "loading"}

\* Subscription specification: a free slot, any subscribers on SubChannels.
InitSubs ==
  /\ Fresh
  /\ inputs = DefaultInputs
  /\ MAPBOX_GEOCODER_API_KEY = Null
  /\ observed \in SUBSET SubChannels
  /\ control = Undefined
  /\ position = "top-right"

\* Combined specification: a free slot and a subscriber for every kind, on
\* the current or the legacy channel.
InitAll ==
  /\ Fresh
  /\ inputs = DefaultInputs
  /\ MAPBOX_GEOCODER_API_KEY = Null
  /\ observed = {"geocoderResults", "result", "error", "loading", "clear"}
  /\ control = Undefined
  /\ position = "top-right"

\* Options specification: the init inputs and credentials vary.
InitOptions ==
  /\ Fresh
  /\ \E t \in TokenValues, f \in FlagValues, z \in NumberValues,
        m \in FlagValues, c \in {Undefined, "de"} :
       inputs = [DefaultInputs EXCEPT !["accessToken"] = t, !["flyTo"] = f,
                                      !["zoom"] = z, !["marker"] = m,
                                      !["countries"] = c]
  /\ MAPBOX_GEOCODER_API_KEY \in KeyValues
  /\ observed = {"geocoderResult"}
  /\ control \in {Undefined, OtherControl}
  /\ position = "top-right"

\* ------------------------------------------------------------ actions
\* ngAfterContentInit (lines 103-141): subscribe to mapCreated$, and to
\* mapLoaded$ if searchInput is truthy now.  Angular calls it once.
ngAfterContentInit ==
  /\ ~contentInit
  /\ contentInit' = TRUE
  /\ loadedSub' = Truthy(searchInput)
  /\ last' = Ran("ngAfterContentInit", "", {})
  /\ trace' = <<>>
  /\ UNCHANGED <<inputs, MAPBOX_GEOCODER_API_KEY, proximity, searchInput,
                 bound, observed, control, position, geocoder, lastResultId,
                 handlers, ctorOptions, created, loaded, changes,
                 changesAfter, constructed, onCalls, slotWrites,
                 addControlCalls, queryCalls, forwarded>>

\* Mutant: the guard never fires.
SlotOccupied_Never(c) == FALSE

\* The guard of line 105: the slot holds a control (an object is truthy).
SlotOccupied(c) == c # Undefined

\* addControl (lines 155-161): store the widget in the slot, then hand the
\* slot's value and position to mapService.addControl.
addControl(w, pos) ==
  <<Call("setControl", w, ""), Call("addControl", w, pos)>>

\* Mutant: the widget is handed to the map before its forwarders exist.
AttachCalls_ControlFirst(w, obs, pos) ==
  <<Call("new", w, "")>> \o addControl(w, pos) \o hookEvents(w, obs)

\* The calls of a successful attachment, in order (lines 132-134).
AttachCalls(w, obs, pos) ==
  <<Call("new", w, "")>> \o hookEvents(w, obs) \o addControl(w, pos)

\* The mapCreated$ subscriber (lines 104-135).
MapCreated ==
  /\ contentInit
  /\ created < MaxCreated
  /\ created' = created + 1
  /\ last' = Ran("mapCreated", "", {})
  /\ IF SlotOccupied(control)
     THEN /\ trace' = <<Call("throw", AlreadySet, "")>>
          /\ UNCHANGED <<geocoder, control, handlers, ctorOptions,
                         constructed, onCalls, slotWrites, addControlCalls>>
     ELSE LET w == Widget(constructed + 1)
              tr == AttachCalls(w, observed, position)
          IN  /\ geocoder' = w
              /\ ctorOptions' =
                   Append(ctorOptions,
                          BuildOptions(inputs, proximity,
                                       MAPBOX_GEOCODER_API_KEY))
              /\ constructed' = constructed + 1
              /\ handlers' =
                   handlers \cup {<<w, c.b>> : c \in
                                    {tr[i] : i \in {j \in 1..Len(tr) :
                                                      tr[j].op = "on"}}}
              /\ onCalls' = onCalls + Len(Calls(tr, "on"))
              /\ control' = w
              /\ slotWrites' = slotWrites + Len(Calls(tr, "setControl"))
              /\ addControlCalls' =
                   addControlCalls + Len(Calls(tr, "addControl"))
              /\ trace' = tr
  /\ UNCHANGED <<inputs, MAPBOX_GEOCODER_API_KEY, proximity, searchInput,
                 bound, observed, position, lastResultId, contentInit,
                 loadedSub, loaded, changes, changesAfter, queryCalls,
                 forwarded>>

\* The mapLoaded$ notification; its subscriber, if line 137 installed one,
\* queries the widget (line 138).  The map loads only after it was created.
MapLoaded ==
  /\ created >= 1
  /\ loaded < MaxLoaded
  /\ loaded' = loaded + 1
  /\ last' = Ran("mapLoaded", "", {})
  /\ IF ~loadedSub
     THEN trace' = <<>> /\ UNCHANGED queryCalls
     ELSE IF geocoder = Undefined
          THEN trace' = <<Call("throw", TypeError, "")>> /\ UNCHANGED queryCalls
          ELSE /\ trace' = <<Call("query", geocoder, searchInput)>>
               /\ queryCalls' = queryCalls + 1
  /\ UNCHANGED <<inputs, MAPBOX_GEOCODER_API_KEY, proximity, searchInput,
                 bound, observed, control, position, geocoder, lastResultId,
                 contentInit, loadedSub, handlers, ctorOptions, created,
                 changes, changesAfter, constructed, onCalls, slotWrites,
                 addControlCalls, forwarded>>

\* Mutant: the first change is forwarded too.
ForwardsProximity_Always(chg, first) == "proximity" \in chg

\* The test of line 147: the proximity change is forwarded.
ForwardsProximity(chg, first) == "proximity" \in chg /\ ~first

\* Mutant: a changed search input is not queried.
ForwardsSearch_Never(chg) == FALSE

\* The test of line 150: the search input is queried.
ForwardsSearch(chg) == "searchInput" \in chg

\* Mutant: the handler runs its body without a widget.
NoWidget_Never(g) == FALSE

\* The guard of line 144: no widget was constructed yet.
NoWidget(g) == g = Undefined

\* The body of ngOnChanges once a widget exists (lines 147-152).
ChangeCalls(w, chg, firstProx, prox, search) ==
  (IF ForwardsProximity(chg, firstProx)
   THEN <<Call("setProximity", w, prox)>> ELSE <<>>) \o
  (IF ForwardsSearch(chg) THEN <<Call("query", w, search)>> ELSE <<>>)

\* ngOnChanges (lines 143-153), after the framework wrote the changed inputs:
\* chg are the inputs of the change set, each a first change exactly when
\* the input was never set before.
ngOnChanges(chg, prox, search) ==
  /\ changes < MaxChanges
  /\ chg # {}
  /\ "proximity" \in chg => prox # proximity
  /\ "searchInput" \in chg => search # searchInput
  /\ changes' = changes + 1
  /\ last' = Ran("ngOnChanges", "", chg)
  /\ proximity' = IF "proximity" \in chg THEN prox ELSE proximity
  /\ searchInput' = IF "searchInput" \in chg THEN search ELSE searchInput
  /\ bound' = bound \cup chg
  /\ IF NoWidget(geocoder)
     THEN trace' = <<>> /\ UNCHANGED <<queryCalls, changesAfter>>
     ELSE LET tr == ChangeCalls(geocoder, chg, "proximity" \notin bound,
                                proximity', searchInput')
          IN  /\ trace' = tr
              /\ queryCalls' = queryCalls + Len(Calls(tr, "query"))
              /\ changesAfter' = changesAfter + 1
  /\ UNCHANGED <<inputs, MAPBOX_GEOCODER_API_KEY, observed, control,
                 position, geocoder, lastResultId, contentInit, loadedSub,
                 handlers, ctorOptions, created, loaded, constructed,
                 onCalls, slotWrites, addControlCalls, forwarded>>

\* Mutant: a clear event forgets the last result.
NextResultId_ResetOnClear(kind, id, lastId) ==
  IF kind = "result" THEN id ELSE IF kind = "clear" THEN Undefined ELSE lastId

\* lastResultId after a forwarder ran to its emissions: only the result
\* forwarder assigns it (line 177).
NextResultId(kind, id, lastId) == IF kind = "result" THEN id ELSE lastId

\* The widget fires an event of a kind on which a forwarder is registered
\* (lines 166-171, 174-183, 186-191, 194-196, 199).
WidgetEvent(w, kind, payload) ==
  /\ <<w, kind>> \in handlers
  /\ last' = Ran(kind, payload, {})
  /\ IF kind = "result" /\ ~IsNewResult(lastResultId, payload)
     THEN trace' = <<>> /\ UNCHANGED <<lastResultId, forwarded>>
     ELSE /\ kind = "result" => Len(forwarded) < MaxForwarded
          /\ trace' = ForwardCalls(kind, payload, observed)
          /\ lastResultId' = NextResultId(kind, payload, lastResultId)
          /\ forwarded' =
               IF kind = "result" THEN Append(forwarded, payload)
               ELSE forwarded
  /\ UNCHANGED <<inputs, MAPBOX_GEOCODER_API_KEY, proximity, searchInput,
                 bound, observed, control, position, geocoder, contentInit,
                 loadedSub, handlers, ctorOptions, created, loaded, changes,
                 changesAfter, constructed, onCalls, slotWrites,
                 addControlCalls, queryCalls>>

\* The widget fires an event of a kind for which hookEvents registered no
\* forwarder (a guard of lines 165, 173, 185, 193, 198 was false): no code
\* of the adapter runs.
WidgetEventUnheard(w, kind) ==
  /\ w # Undefined
  /\ w = geocoder
  /\ <<w, kind>> \notin handlers
  /\ last' = Ran("unheard", kind, {})
  /\ trace' = <<>>
  /\ UNCHANGED <<inputs, MAPBOX_GEOCODER_API_KEY, proximity, searchInput,
                 bound, observed, control, position, geocoder, lastResultId,
                 contentInit, loadedSub, handlers, ctorOptions, created,
                 loaded, changes, changesAfter, constructed, onCalls,
                 slotWrites, addControlCalls, queryCalls, forwarded>>

\* The host subscribes to an output that had no subscriber (lines 67-88):
\* the emitter's observed flag becomes true; no code of the adapter runs.
Subscribe(ch) ==
  /\ ch \notin observed
  /\ observed' = observed \cup {ch}
  /\ last' = Ran("subscribe", ch, {})
  /\ trace' = <<>>
  /\ UNCHANGED <<inputs, MAPBOX_GEOCODER_API_KEY, proximity, searchInput,
                 bound, control, position, geocoder, lastResultId,
                 contentInit, loadedSub, handlers, ctorOptions, created,
                 loaded, changes, changesAfter, constructed, onCalls,
                 slotWrites, addControlCalls, queryCalls, forwarded>>

\* The last subscriber of an output leaves: observed becomes false.
Unsubscribe(ch) ==
  /\ ch \in observed
  /\ observed' = observed \ {ch}
  /\ last' = Ran("unsubscribe", ch, {})
  /\ trace' = <<>>
  /\ UNCHANGED <<inputs, MAPBOX_GEOCODER_API_KEY, proximity, searchInput,
                 bound, control, position, geocoder, lastResultId,
                 contentInit, loadedSub, handlers, ctorOptions, created,
                 loaded, changes, changesAfter, constructed, onCalls,
                 slotWrites, addControlCalls, queryCalls, forwarded>>

\* ------------------------------------------------------------ specifications
Changed ==
  \E chg \in SUBSET DynamicInputs, p \in ProximityValues, q \in SearchValues :
    ngOnChanges(chg, p, q)

ResultFired == \E w \in Widgets, id \in ResultIds : WidgetEvent(w, "result", id)

OtherFired ==
  \E w \in Widgets, k \in Kinds \ {"result"}, p \in Payloads :
    WidgetEvent(w, k, p)

\* Lifecycle specification: the hooks and the map service's notifications.
Next ==
  \/ Changed
  \/ ngAfterContentInit
  \/ MapCreated
  \/ MapLoaded

Spec == Init /\ [][Next]_vars

\* Forwarding specification: attachment, then the widget's events.
NextEvents ==
  \/ ngAfterContentInit
  \/ MapCreated
  \/ ResultFired
  \/ OtherFired

SpecEvents == InitEvents /\ [][NextEvents]_vars

\* Options specification: attachment under every input configuration.
NextOptions ==
  \/ ngAfterContentInit
  \/ MapCreated

SpecOptions == InitOptions /\ [][NextOptions]_vars

UnheardFired == \E w \in Widgets, k \in Kinds : WidgetEventUnheard(w, k)

Subscribed == \E ch \in SubChannels : Subscribe(ch)

Unsubscribed == \E ch \in SubChannels : Unsubscribe(ch)

\* Subscription specification: subscribers come and go around attachment
\* and the widget's events.
NextSubs ==
  \/ ngAfterContentInit
  \/ MapCreated
  \/ Subscribed
  \/ Unsubscribed
  \/ ResultFired
  \/ OtherFired
  \/ UnheardFired

SpecSubs == InitSubs /\ [][NextSubs]_vars

\* Change notifications of the combined specification: proximity is bound
\* to one value, searchInput to any.
ChangedAll ==
  \E chg \in SUBSET DynamicInputs, q \in SearchValues :
    ngOnChanges(chg, "P1", q)

\* Combined specification: hooks, map notifications and widget events
\* interleaved.
NextAll ==
  \/ ChangedAll
  \/ ngAfterContentInit
  \/ MapCreated
  \/ MapLoaded
  \/ ResultFired
  \/ OtherFired

SpecAll == InitAll /\ [][NextAll]_vars

\* ============================================================ claims
\* The calls with the given operation and first argument.
CallsOn(tr, op, a) == SelectSeq(tr, LAMBDA c : c.op = op /\ c.a = a)

\* The handler threw the given error and did nothing else.
OnlyThrew(tr, msg) == tr = <<Call("throw", msg, "")>>

\* The identifier of the most recently forwarded result event, if any.
LastForwarded ==
  IF forwarded = <<>> THEN Undefined ELSE forwarded[Len(forwarded)]

\* C1: whenever the map-created handler runs while the control slot already
\* holds a control, it throws before anything else: no widget is
\* constructed, no forwarder is registered, the slot keeps its control and
\* addControl is not called.
C1_OccupiedSlotThrows ==
  [][(last'.name = "mapCreated" /\ created' = created + 1
      /\ control # Undefined)
     => /\ OnlyThrew(trace', AlreadySet)
        /\ UNCHANGED <<geocoder, control, handlers, ctorOptions, constructed,
                       onCalls, slotWrites, addControlCalls>>]_vars

\* C1 witness: the handler threw on a slot held by another control, with
\* subscribers waiting, and built nothing.
C1_Witness ==
  /\ last.name = "mapCreated"
  /\ OnlyThrew(trace, AlreadySet)
  /\ control = OtherControl
  /\ observed = Channels
  /\ constructed = 0
  /\ handlers = {}

\* C2 (as claimed): with searchInput set when the hooks were installed, an
\* attachment that succeeded and no later change notification, the widget
\* gets no query before map-loaded fires and exactly one query afterwards,
\* however often map-loaded fires.
C2_DeferredQueryOnce ==
  (loadedSub /\ geocoder # Undefined /\ changesAfter = 0)
  => /\ loaded = 0 => queryCalls = 0
     /\ loaded >= 1 => queryCalls = 1

\* C3 (as claimed): a result event is forwarded only if it is the first
\* occurrence of its identifier, so no identifier is ever forwarded twice.
C3_FirstOccurrenceOnly ==
  \A i, j \in 1..Len(forwarded) : i # j => forwarded[i] # forwarded[j]

\* C3 (amended): a result event is forwarded exactly when its identifier
\* differs from that of the most recently forwarded result event (from
\* "unset" when none was forwarded yet); an event repeating the most recent
\* identifier is dropped without any call, while an identifier forwarded
\* earlier, with another one forwarded in between, is forwarded again.
C3_RepeatOfLastDropped ==
  [][last'.name = "result"
     => IF last'.arg # LastForwarded
        THEN /\ forwarded' = Append(forwarded, last'.arg)
             /\ Len(Calls(trace', "emit")) = 2
             /\ \A i \in 1..Len(trace') :
                  trace'[i].op = "emit" => trace'[i].b = last'.arg
        ELSE /\ forwarded' = forwarded
             /\ trace' = <<>>]_vars

\* C3 witness: X was forwarded, then Y, then X again.
C3_Witness ==
  /\ forwarded = <<"X", "Y", "X">>
  /\ last = Ran("result", "X", {})
  /\ Len(Calls(trace, "emit")) = 2

\* C4 (as claimed): with a subscriber on the legacy result channel and none
\* on geocoderResult, an upstream result event whose identifier is new
\* causes one emission on result and none on geocoderResult; a repeat of the
\* same identifier causes no emission.
C4_NoEmissionOnCurrent ==
  [][(last'.name = "result" /\ "result" \in observed
      /\ "geocoderResult" \notin observed)
     => IF last'.arg # LastForwarded
        THEN /\ Len(CallsOn(trace', "emit", "result")) = 1
             /\ CallsOn(trace', "emit", "geocoderResult") = <<>>
        ELSE Calls(trace', "emit") = <<>>]_vars

\* C4 (amended): with a subscriber on the legacy result channel and none on
\* geocoderResult, an upstream result event whose identifier differs from
\* the last forwarded one makes the forwarder emit once on geocoderResult
\* and once on result, both with that event; the result subscribers are
\* notified exactly once and nobody is notified on geocoderResult.  A repeat
\* of the same identifier emits nothing and notifies nobody.
C4_LegacyOnlySubscriber ==
  [][(last'.name = "result" /\ "result" \in observed
      /\ "geocoderResult" \notin observed)
     => IF last'.arg # LastForwarded
        THEN /\ Calls(trace', "emit")
                  = <<Call("emit", "geocoderResult", last'.arg),
                      Call("emit", "result", last'.arg)>>
             /\ Calls(trace', "notify")
                  = <<Call("notify", "result", last'.arg)>>
             /\ forwarded' = Append(forwarded, last'.arg)
        ELSE /\ Calls(trace', "emit") = <<>>
             /\ Calls(trace', "notify") = <<>>
             /\ forwarded' = forwarded]_vars

\* C4 witness: only the legacy channel is subscribed; X was forwarded and
\* now Y is delivered once on result.
C4_Witness ==
  /\ observed \cap {"result", "geocoderResult"} = {"result"}
  /\ forwarded = <<"X", "Y">>
  /\ last = Ran("result", "Y", {})
  /\ Calls(trace, "notify") = <<Call("notify", "result", "Y")>>

\* C5 (as claimed): after attachment, a proximity change carried by the
\* first change notification is not forwarded, and one carried by any later
\* notification is forwarded once, unmodified.
C5_FirstNotificationSkipped ==
  [][(last'.name = "ngOnChanges" /\ changes' = changes + 1
      /\ geocoder # Undefined /\ "proximity" \in last'.chg)
     => IF changesAfter = 0
        THEN Calls(trace', "setProximity") = <<>>
        ELSE Calls(trace', "setProximity")
               = <<Call("setProximity", geocoder, proximity')>>]_vars

\* C5 (amended): after attachment, a proximity change is not forwarded when
\* it is the first change of proximity (the one that supplies its initial
\* value), and is otherwise forwarded exactly once with the new value
\* unmodified, whether or not the notification is the first one after
\* attachment.
C5_FirstChangeSkipped ==
  [][(last'.name = "ngOnChanges" /\ changes' = changes + 1
      /\ geocoder # Undefined /\ "proximity" \in last'.chg)
     => IF "proximity" \notin bound
        THEN Calls(trace', "setProximity") = <<>>
        ELSE Calls(trace', "setProximity")
               = <<Call("setProximity", geocoder, proximity')>>]_vars

\* C5 witness: the first change notification after attachment carried a
\* proximity change that was not proximity's first, and it was forwarded.
C5_Witness ==
  /\ last.name = "ngOnChanges"
  /\ "proximity" \in last.chg
  /\ changesAfter = 1
  /\ Calls(trace, "setProximity") = <<Call("setProximity", geocoder, proximity)>>

\* The outward channels of each event kind, as the interface lists them.
C6_ChannelsOf(kind) ==
  CASE kind = "results" -> {"results", "geocoderResults"}
    [] kind = "result" -> {"result", "geocoderResult"}
    [] kind = "error" -> {"error", "geocoderError"}
    [] kind = "loading" -> {"loading"}
    [] kind = "clear" -> {"clear"}

\* The event kinds with at least one listener.
C6_ListenedKinds == {k \in Kinds : C6_ChannelsOf(k) \cap observed # {}}

\* C6: an attachment registers a forwarder for exactly the event kinds with
\* a listener on their current or legacy channel, so its on() calls number
\* exactly those kinds, and none is made for a kind nobody listens to.
C6_ForwardersMatchListeners ==
  (last.name = "mapCreated" /\ Calls(trace, "new") # <<>>)
  => LET ons == Calls(trace, "on")
     IN  /\ Len(ons) = Cardinality(C6_ListenedKinds)
         /\ {ons[i].b : i \in 1..Len(ons)} = C6_ListenedKinds
         /\ onCalls = Len(ons)
         /\ handlers = {<<geocoder, k>> : k \in C6_ListenedKinds}

\* C6 witness: listeners on one legacy channel and on clear only: two
\* registrations.
C6_Witness ==
  /\ last.name = "mapCreated"
  /\ observed = {"error", "clear"}
  /\ onCalls = 2
  /\ handlers = {<<geocoder, "error">>, <<geocoder, "clear">>}

\* C7 (as claimed): the widget receives the per-instance credential when
\* both credentials are given, the default when only the default is given,
\* and no accessToken key when neither is given.
C7_CredentialResolution ==
  \A n \in 1..Len(ctorOptions) :
    LET o == ctorOptions[n]
        a == inputs["accessToken"]
        b == MAPBOX_GEOCODER_API_KEY
    IN  /\ (Truthy(a) /\ Truthy(b))
           => ("accessToken" \in DOMAIN o /\ o["accessToken"] = a)
        /\ (~Truthy(a) /\ Truthy(b))
           => ("accessToken" \in DOMAIN o /\ o["accessToken"] = b)
        /\ (~Truthy(a) /\ ~Truthy(b)) => "accessToken" \notin DOMAIN o

\* The value each option resolves to, from the adapter's inputs.
C8_Resolved(k) ==
  IF k = "proximity" THEN proximity
  ELSE IF k = "accessToken"
       THEN (IF inputs[k] \in Falsy THEN MAPBOX_GEOCODER_API_KEY
             ELSE inputs[k])
       ELSE inputs[k]

\* C8: the options object handed to the widget constructor holds exactly the
\* options whose resolved value is not undefined, each with that value
\* unchanged (falsy values such as false and 0 included), and so no key
\* whose value is undefined.
C8_NoUndefinedOption ==
  \A n \in 1..Len(ctorOptions) :
    \A k \in OptionKeys :
      /\ k \in DOMAIN ctorOptions[n] <=> C8_Resolved(k) # Undefined
      /\ k \in DOMAIN ctorOptions[n]
         => /\ ctorOptions[n][k] = C8_Resolved(k)
            /\ ctorOptions[n][k] # Undefined

\* C8 witness: a widget built from flyTo = false, zoom = 0 and no countries:
\* the falsy values are passed, the unset key is not.
C8_Witness ==
  /\ constructed = 1
  /\ inputs["flyTo"] = False
  /\ inputs["zoom"] = Zero
  /\ inputs["countries"] = Undefined
  /\ DOMAIN ctorOptions[1] \cap {"flyTo", "zoom", "countries"}
       = {"flyTo", "zoom"}
  /\ ctorOptions[1]["flyTo"] = False
  /\ ctorOptions[1]["zoom"] = Zero

\* C9: with subscribers on both channels of a paired kind, one forwarded
\* event notifies each channel exactly once, with the upstream payload, all
\* within a single zone.run; loading and clear emit once, on their own
\* channel only.
C9_PairedEmission ==
  /\ (last.name \in {"results", "error"}
      \/ (last.name = "result" /\ trace # <<>>))
     => /\ C6_ChannelsOf(last.name) \subseteq observed
           => \A ch \in C6_ChannelsOf(last.name) :
                CallsOn(trace, "notify", ch)
                  = <<Call("notify", ch, last.arg)>>
        /\ Len(CallsOn(trace, "zone.run", "enter")) = 1
        /\ trace[1] = Call("zone.run", "enter", "")
        /\ trace[Len(trace)] = Call("zone.run", "leave", "")
  /\ last.name \in {"loading", "clear"}
     => /\ Len(Calls(trace, "emit")) = 1
        /\ Calls(trace, "emit")[1].a = last.name
        /\ Len(CallsOn(trace, "zone.run", "enter")) = 1

\* C9 witness: both results channels subscribed, one upstream results event
\* delivered on each.
C9_Witness ==
  /\ last = Ran("results", "p2", {})
  /\ {"results", "geocoderResults"} \subseteq observed
  /\ Calls(trace, "notify")
       = <<Call("notify", "geocoderResults", "p2"),
           Call("notify", "results", "p2")>>

\* C10: under any sequence of map-created notifications the attachment takes
\* effect at most once: at most one widget constructed, one slot write and
\* one addControl call.
C10_AttachAtMostOnce ==
  /\ constructed <= 1
  /\ slotWrites <= 1
  /\ addControlCalls <= 1
  /\ Len(ctorOptions) <= 1

\* C10 witness: a second map-created notification was delivered after a
\* successful attachment and was rejected.
C10_Witness ==
  /\ created = 2
  /\ constructed = 1
  /\ slotWrites = 1
  /\ addControlCalls = 1
  /\ OnlyThrew(trace, AlreadySet)

\* C11: a widget-reported error is data: the error forwarder re-emits every
\* upstream error event, payload unchanged, on geocoderError and on error,
\* throws nothing, and leaves the widget handle, the control slot and the
\* last-seen result identifier as they were.
C11_ErrorIsData ==
  [][last'.name = "error"
     => /\ Calls(trace', "emit")
             = <<Call("emit", "geocoderError", last'.arg),
                 Call("emit", "error", last'.arg)>>
        /\ Calls(trace', "throw") = <<>>
        /\ UNCHANGED <<geocoder, control, lastResultId, handlers,
                       constructed>>]_vars

\* C11 witness: an error event was forwarded to subscribers of both error
\* channels after a result had been forwarded; the identifier is retained.
C11_Witness ==
  /\ last = Ran("error", "p1", {})
  /\ lastResultId = "X"
  /\ Calls(trace, "notify")
       = <<Call("notify", "geocoderError", "p1"),
           Call("notify", "error", "p1")>>
  /\ control = geocoder

\* C12 (as claimed): if a search query is present when the map-created
\* handler attaches the widget, then once map-loaded has fired the query has
\* been issued to the widget, whether the query was supplied before
\* ngAfterContentInit or between it and the map-created notification.
\* (With no change notification since attachment, searchInput still is the
\* value it had at attachment.)
C12_InitialQueryIssued ==
  (geocoder # Undefined /\ Truthy(searchInput) /\ changesAfter = 0
   /\ loaded >= 1)
  => queryCalls >= 1

\* C13: a change notification processed while a widget exists makes exactly
\* one query call, on that widget and with the adapter's current searchInput,
\* when its change set contains searchInput (the first value included), and
\* no query call otherwise.
C13_QueryOnSearchChange ==
  [][(last'.name = "ngOnChanges" /\ changes' = changes + 1
      /\ geocoder # Undefined)
     => IF "searchInput" \in last'.chg
        THEN /\ Calls(trace', "query")
                  = <<Call("query", geocoder, searchInput')>>
             /\ queryCalls' = queryCalls + 1
        ELSE /\ Calls(trace', "query") = <<>>
             /\ queryCalls' = queryCalls]_vars

\* C13 witness: the first change notification ever arrives after attachment
\* and supplies searchInput's first value, which is queried.
C13_Witness ==
  /\ last = Ran("ngOnChanges", "", {"searchInput"})
  /\ changes = 1
  /\ geocoder = Widget(1)
  /\ trace = <<Call("query", Widget(1), "q1")>>
  /\ queryCalls = 1

\* C14: a change notification processed while no widget was constructed
\* makes no call at all (no setProximity, no query, no construction) and
\* leaves the control slot, the widget handle, the forwarders, the last-seen
\* result identifier and the notification subscriptions as they were,
\* whatever its change set.
C14_NoOpBeforeAttachment ==
  [][(last'.name = "ngOnChanges" /\ changes' = changes + 1
      /\ geocoder = Undefined)
     => /\ trace' = <<>>
        /\ UNCHANGED <<inputs, MAPBOX_GEOCODER_API_KEY, observed, control,
                       position, geocoder, lastResultId, contentInit,
                       loadedSub, handlers, ctorOptions, created, loaded,
                       constructed, onCalls, slotWrites, addControlCalls,
                       queryCalls, changesAfter, forwarded>>]_vars

\* C14 witness: both dynamic inputs change, proximity not for the first time,
\* before any widget exists, and nothing is called.
C14_Witness ==
  /\ last = Ran("ngOnChanges", "", {"proximity", "searchInput"})
  /\ changes = 2
  /\ bound = {"proximity", "searchInput"}
  /\ searchInput = "q1"
  /\ geocoder = Undefined
  /\ control = Undefined
  /\ contentInit
  /\ trace = <<>>

\* C15: a successful attachment issues exactly one deprecation warning per
\* legacy channel (results, result, error) that has a subscriber at that
\* moment, naming geocoderResults, geocoderResult or geocoderError as the
\* replacement, and none for a legacy channel nobody subscribed to; no other
\* handler run, a forwarder's in particular, issues any warning.
C15_WarningsAtRegistrationOnly ==
  [][LET W(old, new) ==
           IF old \in observed THEN <<Call("warn", old, new)>> ELSE <<>>
     IN  IF last'.name = "mapCreated" /\ constructed' = constructed + 1
         THEN Calls(trace', "warn")
                = W("results", "geocoderResults")
                  \o W("result", "geocoderResult")
                  \o W("error", "geocoderError")
         ELSE Calls(trace', "warn") = <<>>]_vars

\* C15 witness: result and error have legacy subscribers, results only a
\* current-name subscriber: two warnings, none for results.
C15_Witness ==
  /\ last.name = "mapCreated"
  /\ observed = {"geocoderResults", "result", "error", "geocoderError"}
  /\ Calls(trace, "warn")
       = <<Call("warn", "result", "geocoderResult"),
           Call("warn", "error", "geocoderError")>>
  /\ Len(Calls(trace, "on")) = 3

\* C16: a successful attachment constructs the widget first, from options
\* without any undefined value, then registers the forwarders, then stores
\* the widget in the control slot, then calls addControl with that widget
\* and the slot's position, emitting nothing meanwhile; any handler run that
\* emits is a forwarder registered on a widget constructed before.
C16_AttachmentOrder ==
  [][/\ (last'.name = "mapCreated" /\ constructed' = constructed + 1)
        => LET tr == trace'
               n == Len(tr)
               opts == ctorOptions'[Len(ctorOptions')]
           IN  /\ n >= 3
               /\ tr[1] = Call("new", geocoder', "")
               /\ \A k \in DOMAIN opts : opts[k] # Undefined
               /\ \A i \in 2..(n - 2) :
                    tr[i].op \in {"warn", "on"}
                    /\ (tr[i].op = "on" => tr[i].a = geocoder')
               /\ Len(Calls(tr, "on")) = onCalls' - onCalls
               /\ tr[n - 1] = Call("setControl", geocoder', "")
               /\ tr[n] = Call("addControl", geocoder', position)
               /\ control' = geocoder'
               /\ Calls(tr, "emit") = <<>>
     /\ Calls(trace', "emit") # <<>>
        => /\ constructed >= 1
           /\ <<geocoder, last'.name>> \in handlers
           /\ control = geocoder]_vars

\* C16 witness: an attachment with every channel subscribed, at the
\* top-right position: construction, three warnings, five registrations,
\* slot write, addControl.
C16_Witness ==
  /\ last.name = "mapCreated"
  /\ observed = Channels
  /\ position = "top-right"
  /\ Len(trace) = 11
  /\ trace[1] = Call("new", Widget(1), "")
  /\ trace[9].op = "on"
  /\ trace[10] = Call("setControl", Widget(1), "")
  /\ trace[11] = Call("addControl", Widget(1), "top-right")

\* C17: every emit call and every notification of a subscriber lies between
\* a zone.run entry and the matching exit of the same handler run, and a
\* result event repeating the last forwarded identifier enters no zone.
C17_EmissionsInsideZone ==
  [][LET tr == trace'
         Enter == Call("zone.run", "enter", "")
         Leave == Call("zone.run", "leave", "")
         Inside(i) ==
           /\ \E j \in 1..(i - 1) :
                tr[j] = Enter /\ \A k \in (j + 1)..(i - 1) : tr[k] # Leave
           /\ \E j \in (i + 1)..Len(tr) :
                tr[j] = Leave /\ \A k \in (i + 1)..(j - 1) : tr[k] # Enter
     IN  /\ \A i \in 1..Len(tr) :
              tr[i].op \in {"emit", "notify"} => Inside(i)
         /\ (last'.name = "result" /\ last'.arg = LastForwarded)
            => Calls(tr, "zone.run") = <<>>]_vars

\* C17 witness: a clear event forwarded to a subscriber inside one zone.run.
C17_Witness ==
  /\ last.name = "clear"
  /\ trace = <<Call("zone.run", "enter", ""),
               Call("emit", "clear", Undefined),
               Call("notify", "clear", Undefined),
               Call("zone.run", "leave", "")>>
  /\ forwarded = <<"X">>

\* C18 (as claimed): whenever the map-loaded subscriber installed for the
\* deferred initial query has run, a widget constructed by this adapter
\* existed, so the query was made on it and nothing was thrown.
C18_QueryHasWidget ==
  (last.name = "mapLoaded" /\ loadedSub)
  => /\ geocoder # Undefined
     /\ constructed >= 1
     /\ Calls(trace, "throw") = <<>>

\* C19: which kinds have a forwarder is decided by the subscribers present
\* at attachment and never revisited.  An attachment registers forwarders
\* for exactly the kinds with a subscriber on one of their channels; a
\* subscriber arriving or leaving afterwards registers and removes nothing.
\* An event of a kind without forwarder emits and notifies nothing, also
\* when its channel has a subscriber by then; an event of a kind with a
\* forwarder makes the forwarder emit on each of its channels, also when all
\* its subscribers have left (a repeated result identifier excepted).
C19_GatingDecidedAtAttachment ==
  [][LET ChannelsOf(k) ==
           IF k = "results" THEN {"geocoderResults", "results"}
           ELSE IF k = "result" THEN {"geocoderResult", "result"}
           ELSE IF k = "error" THEN {"geocoderError", "error"}
           ELSE {k}
         EmittedOn == {trace'[i].a : i \in {j \in 1..Len(trace') :
                                             trace'[j].op = "emit"}}
     IN  /\ handlers' # handlers
            => (last'.name = "mapCreated" /\ constructed' = constructed + 1)
         /\ (last'.name = "mapCreated" /\ constructed' = constructed + 1)
            => handlers' = {<<geocoder', k>> :
                              k \in {x \in Kinds :
                                       ChannelsOf(x) \cap observed # {}}}
         /\ last'.name \in {"subscribe", "unsubscribe"}
            => /\ observed' # observed
               /\ trace' = <<>>
               /\ UNCHANGED <<handlers, onCalls>>
         /\ last'.name = "unheard"
            => /\ <<geocoder, last'.arg>> \notin handlers
               /\ trace' = <<>>
         /\ (last'.name \in Kinds
             /\ ~(last'.name = "result" /\ last'.arg = LastForwarded))
            => /\ <<geocoder, last'.name>> \in handlers
               /\ EmittedOn = ChannelsOf(last'.name)
               /\ Len(Calls(trace', "emit"))
                    = Cardinality(ChannelsOf(last'.name))
               /\ Len(Calls(trace', "notify"))
                    = Cardinality(ChannelsOf(last'.name) \cap observed)]_vars

\* C19 witness: attachment saw a subscriber on result only; since then it
\* left and one arrived on loading.  The result forwarder still emits (to
\* nobody) and there is no loading forwarder.
C19_Witness ==
  /\ last = Ran("result", "X", {})
  /\ observed = {"loading"}
  /\ handlers = {<<Widget(1), "result">>}
  /\ Calls(trace, "emit")
       = <<Call("emit", "geocoderResult", "X"), Call("emit", "result", "X")>>
  /\ Calls(trace, "notify") = <<>>

\* C20: lastResultId always holds the identifier of the most recently
\* forwarded result event (unset while none was forwarded) and is assigned
\* only by a result event that is forwarded; every other handler run
\* (results, error, loading, clear, change notifications with their queries,
\* map-created, map-loaded) leaves it as it was, so a result event carrying
\* the last forwarded identifier is dropped whatever happened in between.
C20_LastResultIdFrame ==
  [][/\ lastResultId' = LastForwarded'
     /\ lastResultId' # lastResultId
        => /\ last'.name = "result"
           /\ lastResultId' = last'.arg
           /\ forwarded' = Append(forwarded, last'.arg)
           /\ Calls(trace', "emit") # <<>>
     /\ last'.name # "result"
        => UNCHANGED <<lastResultId, forwarded>>
     /\ (last'.name = "result" /\ last'.arg = lastResultId)
        => /\ trace' = <<>>
           /\ UNCHANGED <<lastResultId, forwarded>>]_vars

\* C20 witness: X was forwarded, then a new query went to the widget and a
\* clear event was forwarded; the identifier is still X.
C20_Witness ==
  /\ last.name = "clear"
  /\ Calls(trace, "emit") = <<Call("emit", "clear", Undefined)>>
  /\ forwarded = <<"X">>
  /\ lastResultId = "X"
  /\ queryCalls = 1
  /\ changesAfter = 1
  /\ loaded = 0
  /\ searchInput = "q2"

====
